---- MODULE Spec2Model ----
(***************************************************************************)
(* The documentation graph builder of codeatlas: the scan command          *)
(* (handleScan) with the helpers it calls, as a state machine.  One run of *)
(* handleScan goes through the numbered steps of the source, one action    *)
(* per step; the file system it reads is chosen in Init and is not changed *)
(* by the run, except for the tree file .ai-docs/docs/ai-tree.json.        *)
(* RerunSpec runs handleScan again on the project as a run left it;        *)
(* ParseSpec runs it on documents of every shape of text; ScanSpec runs it  *)
(* on projects with files that the directory walks leave out.              *)
(*                                                                         *)
(* Strings.  A path is the sequence of its segments ("a/b.md" is           *)
(* <<"a", "b.md">>); an id is the sequence of its hyphen-separated tokens  *)
(* ("util-a" is <<"util", "a">>), so that appending "-1" is Append(id,"1").*)
(* JavaScript null and undefined of an id- or path-valued field are the    *)
(* empty sequence; the empty string is not among the ids of the inputs.    *)
(* The parent read from an inherited member of the plain object tree is    *)
(* undefined used as a property name, the id <<"undefined">>.              *)
(***************************************************************************)
EXTENDS Integers, Sequences, FiniteSets, TLC

VARIABLES
    fs,                 \* the project directory read by the run (input)
    options,            \* ScanOptions: analyzeCode, suggestOnly, autoLink
    treeFile,           \* contents of .ai-docs/docs/ai-tree.json
    pc,                 \* position of handleScan
    mdFiles,            \* step 1: discovered markdown files, in order
    tree,               \* TreeData: insertion-ordered <<[key, val]>>
    warnings,           \* warnings: string[]
    duplicateIds,       \* duplicateIds: string[]
    filePathToId,       \* Map<string, string>, insertion-ordered
    allReferencedPaths, \* step 3: Set<string>, insertion-ordered
    codeStructure,      \* step 5: CodeStructure | null
    suggestions,        \* step 5: HierarchySuggestion[]
    validation,         \* step 7: {circular, orphaned}
    treeWithChildren,   \* step 8: the object that is serialized
    writes,             \* number of writeFile calls on the tree file
    finished            \* steps of this run that are over (run or skipped)

vars == <<fs, options, treeFile, pc, mdFiles, tree, warnings, duplicateIds,
          filePathToId, allReferencedPaths, codeStructure, suggestions,
          validation, treeWithChildren, writes, finished>>

----------------------------------------------------------------------------
(* Generic helpers: JavaScript arrays, objects and Maps.                   *)

Null == <<>>

Range(s) == {s[i] : i \in DOMAIN s}

Contains(s, x) == \E i \in DOMAIN s : s[i] = x

Last(s) == s[Len(s)]

Front(s) == SubSeq(s, 1, Len(s) - 1)

IsPrefix(p, s) == Len(p) <= Len(s) /\ SubSeq(s, 1, Len(p)) = p

\* The element of a one-element set.  Only({F(v) : v \in {x}}) is F(x) with
\* x computed once, as a statement that precedes F in the source is
\* executed once
Only(S) == CHOOSE r \in S : TRUE

\* Array.prototype.filter
RECURSIVE Filter(_, _)
Filter(s, keep) ==
    IF s = <<>> THEN <<>>
    ELSE (IF Head(s) \in keep THEN <<Head(s)>> ELSE <<>>) \o Filter(Tail(s), keep)

\* obj[k] is truthy / map.has(k): entries are objects, so a key that is
\* present is truthy.
HasKey(m, k) == \E i \in DOMAIN m : m[i].key = k

\* obj[k] / map.get(k), for a key that is present
Get(m, k) == m[CHOOSE i \in DOMAIN m : m[i].key = k].val

\* obj[k] = v / map.set(k, v): an existing key keeps its position in the
\* enumeration order, a new key goes last.
Put(m, k, v) ==
    IF HasKey(m, k)
    THEN [i \in DOMAIN m |-> IF m[i].key = k THEN [key |-> k, val |-> v] ELSE m[i]]
    ELSE Append(m, [key |-> k, val |-> v])

\* Object.keys / Map.keys, in enumeration order
Keys(m) == [i \in DOMAIN m |-> m[i].key]

\* The names a plain object inherits from Object.prototype: tree[k] is
\* truthy for them whether or not k is a key of tree
ObjectPrototypeNames ==
    {<<"constructor">>, <<"toString">>, <<"valueOf">>, <<"hasOwnProperty">>}

\* tree[k] is truthy (tree is a plain object)
TreeHas(t, k) == HasKey(t, k) \/ k \in ObjectPrototypeNames

\* undefined, where it is used as an id: the property name is "undefined"
Undefined == <<"undefined">>

\* tree[k].parent, for a k with tree[k] truthy: an inherited member has no
\* parent property
ParentAt(t, k) == IF HasKey(t, k) THEN Get(t, k).parent ELSE Undefined

KeySet(m) == {m[i].key : i \in DOMAIN m}

----------------------------------------------------------------------------
(* Well-known names of the source.                                         *)

AiDocs == ".ai-docs"

DocsDirName == "docs"

FilesDirName == "files"

docsDir == <<AiDocs, DocsDirName>>

filesDir == <<AiDocs, FilesDirName>>

RootId == <<"root">>

ReferencedOrder == 999

ParentModuleOrder == 10

DefaultOrder == 0

----------------------------------------------------------------------------
(* Strings of the inputs.  The string functions of the source are applied  *)
(* to the names that occur in the modelled project; each table gives the   *)
(* result of the JavaScript expression on those names.                     *)

\* s.replace(/\.md$/, ''), basename(p, '.md')
StripMd(name) ==
    CASE name = "a.md" -> "a"
      [] name = "b.md" -> "b"
      [] name = "util-a.md" -> "util-a"
      [] name = "ai-index.md" -> "ai-index"
      [] name = "billing.md" -> "billing"
      [] OTHER -> name

\* entry.endsWith('.md')
EndsWithMd(name) == StripMd(name) # name

\* s.replace(/[^a-z0-9-]/gi, '-').toLowerCase(), cut at the hyphens
Slug(name) ==
    CASE name = "util-a" -> <<"util", "a">>
      [] name = "ai-index" -> <<"ai", "index">>
      [] name = ".ai-docs" -> <<"", "ai", "docs">>
      [] name = "docs-old" -> <<"docs", "old">>
      [] OTHER -> <<name>>

\* word.charAt(0).toUpperCase() + word.slice(1)
Capitalize(word) ==
    CASE word = "a" -> "A"
      [] word = "b" -> "B"
      [] word = "util" -> "Util"
      [] word = "utils" -> "Utils"
      [] word = "llm" -> "Llm"
      [] word = "fileScanner" -> "FileScanner"
      [] word = "llmClient" -> "LlmClient"
      [] word = "index" -> "Index"
      [] word = "index.ts" -> "Index.ts"
      [] OTHER -> word

\* name.split(/[-_]/)
SplitWords(name) ==
    CASE name = "util-a" -> <<"util", "a">>
      [] name = "ai-index" -> <<"ai", "index">>
      [] OTHER -> <<name>>

\* fileName.replace(/\.[^.]+$/, ''), fileName.replace(ext, '')
StripExtension(name) ==
    CASE name = "a.ts" -> "a"
      [] name = "fileScanner.ts" -> "fileScanner"
      [] name = "llmClient.ts" -> "llmClient"
      [] name = "index.ts" -> "index"
      [] name = "a.md.ts" -> "a.md"
      [] OTHER -> name

\* s.slice(0, -1)
DropLastChar(s) ==
    CASE s = "llm" -> "ll"
      [] s = "index.ts" -> "index.t"
      [] s = "docs" -> "doc"
      [] s = "middleware" -> "middlewar"
      [] s = "config" -> "confi"
      [] s = "constants" -> "constant"
      [] OTHER -> s

\* resolvedPath.startsWith(docsDir), segment by segment: the last segment
\* of the directory need only be a prefix of the path's segment.
StrStartsWith(s, prefix) ==
    \/ s = prefix
    \/ s = "docs-old" /\ prefix = "docs"

\* haystack.includes(needle) for two path segments
StrIncludes(haystack, needle) ==
    \/ haystack = needle
    \/ haystack = "a.md.ts" /\ needle = "a.md"
    \/ haystack \in {"a.ts", "a.md.ts", "fileScanner.ts", "llmClient.ts",
                      "scripts", "latest.ts"}
       /\ needle = "ts"
    \/ haystack = "builder" /\ needle = "build"
    \/ haystack = "latest.ts" /\ needle = "test"
    \/ haystack = ".eslintrc.js" /\ needle = "js"

\* entry.startsWith('.')
StartsWithDot(entry) == entry \in {".ai-docs", ".eslintrc.js"}

\* s.toLowerCase()
toLowerCase(s) ==
    CASE s = "fileScanner.ts" -> "filescanner.ts"
      [] s = "llmClient.ts" -> "llmclient.ts"
      [] OTHER -> s

\* getExtension(fileName): fileName.slice(fileName.lastIndexOf('.')), ''
\* when there is no dot after the first character
getExtension(fileName) ==
    CASE fileName \in {"a.ts", "a.md.ts", "fileScanner.ts", "llmClient.ts",
                       "latest.ts"} -> ".ts"
      [] fileName = ".eslintrc.js" -> ".js"
      [] fileName = "run.sh" -> ".sh"
      [] fileName = "notes.txt" -> ".txt"
      [] OTHER -> ""

----------------------------------------------------------------------------
(* The file system.  fs.docsDir is the state of .ai-docs/docs ("missing",  *)
(* "unreadable": readdir fails, or "readable"); fs.docs lists the markdown *)
(* files under .ai-docs/docs and .ai-docs/files in readdir order, each     *)
(* with its path, whether it can be read, and its content; fs.noAccess     *)
(* holds the files for which stat throws and the directories for which     *)
(* readdir throws; fs.sourceFiles lists the files of the project outside   *)
(* .ai-docs, which scanProject walks, in readdir order; fs.analysisFails   *)
(* says whether analyzeCodeStructure throws.                               *)

dirname(path) == Front(path)

basename(path) == Last(path)

\* path.normalize(path.join(...)): "." is dropped, ".." removes the segment
\* before it
RECURSIVE Normalize(_, _)
Normalize(done, rest) ==
    IF rest = <<>> THEN done
    ELSE IF Head(rest) = "." THEN Normalize(done, Tail(rest))
    ELSE IF Head(rest) = ".." /\ done # <<>> /\ Last(done) # ".."
         THEN Normalize(Front(done), Tail(rest))
    ELSE Normalize(Append(done, Head(rest)), Tail(rest))

DocPaths == {fs.docs[i].path : i \in DOMAIN fs.docs}

FileAt(path) == fs.docs[CHOOSE i \in DOMAIN fs.docs : fs.docs[i].path = path]

\* existsSync(join(root, path))
existsSync(path) ==
    \/ path = docsDir /\ fs.docsDir # "missing"
    \/ path \in DocPaths /\ path \notin fs.noAccess

\* readFile(path, 'utf-8') returns rather than throws
CanRead(path) == path \in DocPaths /\ FileAt(path).readable

\* The content of a file is a sequence of tokens: the line "---", a line
\* break, or a run of characters that holds no "---" line: lines of YAML
\* key-value pairs (meta gives the keys the program reads; an absent key
\* is Null), lines of a YAML sequence, a plain word, or a markdown link.
\* A loaded YAML sequence is a metadata value with elements and no keys.
EmptyMeta ==
    [id |-> Null, parent |-> Null, title |-> Null, order |-> <<>>,
     elements |-> <<>>]

Token(kind) == [kind |-> kind, meta |-> EmptyMeta, form |-> "", segs |-> <<>>]

Delimiter == Token("---")

Newline == Token("\n")

\* yaml.load(frontmatterText) of js-yaml: a leading "---" line is the
\* document marker; nothing loads as undefined (null after the marker), one
\* run of key-value pairs as an object, sequence lines as an array, a word
\* (with continuation lines) as a string; a repeated key, content after a
\* finished collection and a markdown link throw.
yamlLoad(frontmatterText) ==
    Only({LET marked == all # <<>> /\ Head(all) = Delimiter
              lines == IF marked THEN Tail(all) ELSE all
              kinds == {lines[i].kind : i \in DOMAIN lines}
          IN IF lines = <<>>
             THEN [outcome |-> IF marked THEN "null" ELSE "undefined",
                   value |-> EmptyMeta]
             ELSE IF kinds = {"mapping"} /\ Len(lines) = 1
             THEN [outcome |-> "mapping", value |-> lines[1].meta]
             ELSE IF kinds = {"sequence"}
             THEN [outcome |-> "sequence",
                   value |-> [EmptyMeta EXCEPT
                                  !.elements = [i \in DOMAIN lines |->
                                                   lines[i].meta.elements[1]]]]
             ELSE IF Head(lines).kind = "scalar" /\ kinds \subseteq {"scalar", "sequence"}
             THEN [outcome |-> "string", value |-> EmptyMeta]
             ELSE [outcome |-> "throws", value |-> EmptyMeta] :
          all \in {Filter(frontmatterText, Range(frontmatterText) \ {Newline})}})

\* typeof meta === 'object'
TypeofObject(loaded) == loaded.outcome \in {"mapping", "sequence", "null"}

\* content.startsWith('---\n')
StartsWithDelimiter(content) ==
    Len(content) >= 2 /\ content[1] = Delimiter /\ content[2] = Newline

\* content.indexOf('\n---\n', 4): the position of the line break that the
\* closing line follows, 0 when there is none.  The opening line and its
\* line break are the first two tokens, four characters.
IndexOfClosing(content) ==
    LET found == {i \in 3..(Len(content) - 2) :
                     /\ content[i] = Newline
                     /\ content[i + 1] = Delimiter
                     /\ content[i + 2] = Newline}
    IN IF found = {} THEN 0 ELSE CHOOSE i \in found : \A j \in found : i <= j

RECURSIVE trimStart(_)
trimStart(text) ==
    Only({IF t # <<>> /\ Head(t) = Newline THEN trimStart(Tail(t)) ELSE t :
             t \in {text}})

\* parse(content): { meta, body }
parse(content) ==
    IF ~StartsWithDelimiter(content)
    THEN [meta |-> EmptyMeta, body |-> content]
    ELSE Only({
        IF endIndex = 0
        THEN [meta |-> EmptyMeta, body |-> content]
        ELSE Only({
            IF loaded.outcome = "throws"
            THEN [meta |-> EmptyMeta, body |-> content]
            ELSE IF ~TypeofObject(loaded) \/ loaded.outcome = "null"
            THEN [meta |-> EmptyMeta, body |-> content]
            ELSE [meta |-> loaded.value,
                  body |-> trimStart(SubSeq(content, endIndex + 3, Len(content)))] :
            loaded \in {yamlLoad(SubSeq(content, 3, endIndex - 1))}}) :
        endIndex \in {IndexOfClosing(content)}})

\* readdir(dir): the names of the entries of dir, in the order in which
\* paths lists the files below it
readdir(paths, dir) ==
    Only({Only({[k \in 1..Cardinality(first) |->
                   names[CHOOSE i \in first : Cardinality({j \in first : j < i}) = k - 1]] :
                first \in {{i \in DOMAIN names :
                               \A j \in 1..(i - 1) : names[j] # names[i]}}}) :
          names \in {[i \in DOMAIN under |-> under[i][Len(dir) + 1]] :
                        under \in {Filter(paths, {p \in Range(paths) :
                                              IsPrefix(dir, p) /\ Len(p) > Len(dir)})}}})

\* stats.isDirectory(): some file lies below path
isDirectory(paths, path) == \E p \in Range(paths) : IsPrefix(path, p) /\ p # path

\* findMarkdownFiles(dir, root): the one try block holds readdir and the
\* loop, so a throwing readdir gives [] and a throwing stat ends the loop
\* with the files found so far.  at holds the values of one iteration.
RECURSIVE findMarkdownFiles(_)
RECURSIVE FindInEntries(_, _, _)

FindInEntries(dir, entries, files) ==
    IF entries = <<>> THEN files
    ELSE Only({
        IF isDirectory([i \in DOMAIN fs.docs |-> fs.docs[i].path], at.fullPath)
        THEN Only({FindInEntries(at.dir, at.rest, withSubFiles) :
                      withSubFiles \in {at.files \o findMarkdownFiles(at.fullPath)}})
        ELSE IF at.fullPath \in fs.noAccess
        THEN at.files
        ELSE IF EndsWithMd(at.entry)
        THEN Only({FindInEntries(at.dir, at.rest, pushed) :
                      pushed \in {Append(at.files, at.fullPath)}})
        ELSE FindInEntries(at.dir, at.rest, at.files) :
        at \in {[dir |-> dir, entry |-> Head(entries),
                 fullPath |-> Append(dir, Head(entries)),
                 rest |-> Tail(entries), files |-> files]}})

findMarkdownFiles(dir) ==
    IF (dir = docsDir /\ fs.docsDir # "readable") \/ dir \in fs.noAccess
    THEN <<>>
    ELSE Only({FindInEntries(dir, entries, <<>>) :
                  entries \in {readdir([i \in DOMAIN fs.docs |-> fs.docs[i].path], dir)}})

\* resolvedPath.startsWith(dir): a comparison of strings, not of segments
PathStartsWith(path, dir) ==
    /\ Len(path) >= Len(dir)
    /\ SubSeq(path, 1, Len(dir) - 1) = Front(dir)
    /\ StrStartsWith(path[Len(dir)], Last(dir))

\* One match of linkRegex in extractMarkdownReferences: the references
\* after the link has been looked at.
ExtractLink(link, currentDir, references) ==
    LET resolvedPath ==
            IF link.form = "abs"
            THEN Normalize(<<>>, link.segs)
            ELSE Normalize(<<>>, currentDir \o link.segs)
    IN IF /\ link.kind = "link"
          /\ link.form # "ext"
          /\ EndsWithMd(Last(link.segs))
          /\ PathStartsWith(resolvedPath, docsDir) \/ PathStartsWith(resolvedPath, filesDir)
          /\ existsSync(resolvedPath)
          /\ ~Contains(references, resolvedPath)
       THEN Append(references, resolvedPath)
       ELSE references

RECURSIVE ExtractLinks(_, _, _)
ExtractLinks(body, currentDir, references) ==
    IF body = <<>> THEN references
    ELSE Only({ExtractLinks(Tail(body), currentDir, rs) :
                  rs \in {ExtractLink(Head(body), currentDir, references)}})

extractMarkdownReferences(body, currentDir) ==
    Only({ExtractLinks(b, currentDir, <<>>) : b \in {body}})

\* The references read from the file at filePath inside traverse; none when
\* the file does not exist or readFile throws.
ReferencesOf(filePath) ==
    IF existsSync(filePath) /\ CanRead(filePath)
    THEN extractMarkdownReferences(parse(FileAt(filePath).content).body,
                                   dirname(filePath))
    ELSE <<>>

\* A traversal that records the references of a file and does not follow
\* them
traverseDirectOnly(filePath, st) ==
    IF filePath \in st.visited THEN st
    ELSE [visited |-> st.visited \cup {filePath},
          reads |-> st.reads,
          allReferenced |->
              st.allReferenced \o
              Filter(ReferencesOf(filePath),
                     {r \in Range(ReferencesOf(filePath)) :
                         existsSync(r) /\ ~Contains(st.allReferenced, r)})]

\* findAllReferencedFiles: st = [visited, allReferenced, reads]; reads
\* lists the files given to readFile, in order
RECURSIVE traverse(_, _)
RECURSIVE TraverseRefs(_, _)

\* visited.add(filePath) and, for a file that exists, readFile
Visit(filePath, st) ==
    [st EXCEPT !.visited = @ \cup {filePath},
               !.reads = IF existsSync(filePath) THEN Append(@, filePath) ELSE @]

\* A traversal without the test of visited
traverseUnguarded(filePath, st) ==
    Only({TraverseRefs(references, Visit(filePath, st)) :
             references \in {ReferencesOf(filePath)}})

traverse(filePath, st) ==
    IF filePath \in st.visited THEN st
    ELSE Only({TraverseRefs(references, Visit(filePath, st)) :
                  references \in {ReferencesOf(filePath)}})

TraverseRefs(refs, st) ==
    IF refs = <<>> THEN st
    ELSE IF existsSync(Head(refs)) /\ ~Contains(st.allReferenced, Head(refs))
         THEN Only({TraverseRefs(Tail(refs), s) :
                       s \in {traverse(Head(refs),
                                       [st EXCEPT !.allReferenced = Append(@, Head(refs))])}})
         ELSE TraverseRefs(Tail(refs), st)

RECURSIVE TraverseAll(_, _)
TraverseAll(startFiles, st) ==
    IF startFiles = <<>> THEN st
    ELSE Only({TraverseAll(Tail(startFiles), s) : s \in {traverse(Head(startFiles), st)}})

\* The traversal from startFiles, with new visited and allReferenced sets
TraverseFrom(startFiles) ==
    TraverseAll(startFiles, [visited |-> {}, allReferenced |-> <<>>, reads |-> <<>>])

findAllReferencedFiles(startFiles) == TraverseFrom(startFiles).allReferenced

----------------------------------------------------------------------------
(* Tree entries.                                                           *)

RECURSIVE Flatten(_)
Flatten(ss) == IF ss = <<>> THEN <<>> ELSE Head(ss) \o Flatten(Tail(ss))

\* A TreeEntry; the optional fields are Null, FALSE or "undefined" when
\* the source leaves them out.
TreeEntry(id, title, parent, order, path) ==
    [id |-> id, title |-> title, parent |-> parent, order |-> order,
     path |-> path, references |-> <<>>, isReferenced |-> FALSE,
     sourceFile |-> Null, suggestedParent |-> Null, sourceFiles |-> <<>>,
     isSourceFile |-> "undefined"]

\* The id generateEntryForReferencedFile derives from the path
ReferencedFileId(relPath) ==
    LET inDocs == IF IsPrefix(docsDir, relPath)
                  THEN SubSeq(relPath, Len(docsDir) + 1, Len(relPath))
                  ELSE relPath
        noMd == [i \in DOMAIN inDocs |->
                    IF i = Len(inDocs) THEN StripMd(inDocs[i]) ELSE inDocs[i]]
    IN Flatten([i \in DOMAIN noMd |-> Slug(noMd[i])])

\* The title generateEntryForReferencedFile derives from the file name
ReferencedFileTitle(filePath) ==
    LET fileName == StripMd(basename(filePath))
    IN [i \in DOMAIN SplitWords(fileName) |-> Capitalize(SplitWords(fileName)[i])]

\* The same entry without the isReferenced field
generateEntryWithoutFlag(filePath) ==
    TreeEntry(ReferencedFileId(filePath), ReferencedFileTitle(filePath),
              Null, ReferencedOrder, filePath)

generateEntryForReferencedFile(filePath) ==
    [TreeEntry(ReferencedFileId(filePath), ReferencedFileTitle(filePath),
               Null, ReferencedOrder, filePath)
        EXCEPT !.isReferenced = TRUE]

\* The "Ensure unique ID" loop: uniqueId after the loop.
RECURSIVE UniqueIdFrom(_, _, _, _)
UniqueIdFrom(t, id, uniqueId, counter) ==
    IF TreeHas(t, uniqueId)
    THEN UniqueIdFrom(t, id, Append(id, ToString(counter)), counter + 1)
    ELSE uniqueId

\* A loop that stops after the first suffix
UniqueIdWithFirstSuffix(t, id) == IF TreeHas(t, id) THEN Append(id, "1") ELSE id

UniqueId(t, id) == UniqueIdFrom(t, id, id, 1)

----------------------------------------------------------------------------
(* Step 2 of handleScan: one iteration of the loop over mdFiles.           *)
(* st = [tree, warnings, duplicateIds, filePathToId].                      *)

Warning(kind, about) == [kind |-> kind, about |-> about]

\* The entry handleScan builds for a document that declares an id.
ExplicitEntry(filePath, p) ==
    LET title == IF p.meta.title # Null THEN p.meta.title ELSE p.meta.id
        order == IF p.meta.order # <<>> THEN p.meta.order[1] ELSE DefaultOrder
    IN [TreeEntry(p.meta.id, title, p.meta.parent, order, filePath)
            EXCEPT !.references =
                extractMarkdownReferences(p.body, dirname(filePath))]

\* An assignment that keeps the entry already stored under id
SetEntryKeepingFirst(t, id, entry) == IF HasKey(t, id) THEN t ELSE Put(t, id, entry)

\* tree[id] = { id, title, parent, order, path, references }
SetEntry(t, id, entry) == Put(t, id, entry)

ParseFile(filePath, st) ==
    IF ~CanRead(filePath)
    THEN [st EXCEPT !.warnings = Append(@, Warning("error", filePath))]
    ELSE Only({
            IF p.meta.id = Null
            THEN [st EXCEPT !.warnings = Append(@, Warning("missing id", filePath))]
            ELSE [tree |-> SetEntry(st.tree, p.meta.id, ExplicitEntry(filePath, p)),
                  warnings |->
                      IF TreeHas(st.tree, p.meta.id)
                      THEN Append(st.warnings, Warning("duplicate id", p.meta.id))
                      ELSE st.warnings,
                  duplicateIds |->
                      IF TreeHas(st.tree, p.meta.id)
                      THEN Append(st.duplicateIds, p.meta.id)
                      ELSE st.duplicateIds,
                  filePathToId |-> Put(st.filePathToId, filePath, p.meta.id)] :
            p \in {parse(FileAt(filePath).content)}})

RECURSIVE ParseFiles(_, _)
ParseFiles(files, st) ==
    IF files = <<>> THEN st
    ELSE Only({ParseFiles(Tail(files), s) : s \in {ParseFile(Head(files), st)}})

----------------------------------------------------------------------------
(* Step 4: one iteration of the loop over allReferencedPaths.              *)
(* st = [tree, warnings, filePathToId].                                    *)

\* The same insertion without the assignment entry.id = uniqueId
ReferencedEntryWithGeneratedId(refPath, uniqueId) ==
    generateEntryForReferencedFile(refPath)

\* entry.id = uniqueId, on the entry generated for a referenced file
ReferencedEntry(refPath, uniqueId) ==
    [generateEntryForReferencedFile(refPath) EXCEPT !.id = uniqueId]

AddReferencedFile(refPath, st) ==
    IF HasKey(st.filePathToId, refPath)
       /\ TreeHas(st.tree, Get(st.filePathToId, refPath))
    THEN st
    ELSE IF ~existsSync(refPath) THEN st
    ELSE IF ~CanRead(refPath)
    THEN [st EXCEPT !.warnings = Append(@, Warning("error", refPath))]
    ELSE IF parse(FileAt(refPath).content).meta.id # Null THEN st
    ELSE LET uniqueId == UniqueId(st.tree, generateEntryForReferencedFile(refPath).id)
         IN [st EXCEPT
                !.tree = Put(@, uniqueId, ReferencedEntry(refPath, uniqueId)),
                !.filePathToId = Put(@, refPath, uniqueId)]

RECURSIVE AddReferencedFiles(_, _)
AddReferencedFiles(paths, st) ==
    IF paths = <<>> THEN st
    ELSE Only({AddReferencedFiles(Tail(paths), s) :
                  s \in {AddReferencedFile(Head(paths), st)}})

----------------------------------------------------------------------------
(* codeStructureAnalyzer.ts                                                *)

\* directoryToModule[directory] || directory
directoryToModule(directory) ==
    CASE directory \in {"commands", "command"} -> "commands"
      [] directory \in {"utils", "util"} -> "utils"
      [] directory = "llm" -> "llm"
      [] directory \in {"components", "component"} -> "components"
      [] directory \in {"services", "service"} -> "services"
      [] directory \in {"models", "model"} -> "models"
      [] directory \in {"types", "type"} -> "types"
      [] directory \in {"interfaces", "interface"} -> "interfaces"
      [] directory \in {"handlers", "handler"} -> "handlers"
      [] directory \in {"routes", "route"} -> "routes"
      [] directory = "middleware" -> "middleware"
      [] directory = "config" -> "config"
      [] directory = "constants" -> "constants"
      [] OTHER -> directory

\* prefixMap[parentModuleId] || parentModuleId.slice(0, -1)
getSubModulePrefix(parentModuleId) ==
    CASE parentModuleId = "commands" -> "command"
      [] parentModuleId = "utils" -> "util"
      [] parentModuleId = "components" -> "component"
      [] parentModuleId = "services" -> "service"
      [] parentModuleId = "models" -> "model"
      [] parentModuleId = "types" -> "type"
      [] parentModuleId = "interfaces" -> "interface"
      [] parentModuleId = "handlers" -> "handler"
      [] parentModuleId = "routes" -> "route"
      [] OTHER -> DropLastChar(parentModuleId)

\* generateIdFromName: a hyphen between a lower-case and an upper-case
\* letter, lower case, runs of other characters to one hyphen
generateIdFromName(name) ==
    CASE name = "fileScanner" -> <<"file", "scanner">>
      [] name = "llmClient" -> <<"llm", "client">>
      [] name = "a.md" -> <<"a", "md">>
      [] OTHER -> <<name>>

\* generateIdFromPath: the leading src/, lib/ or app/ and the extension
\* removed, separators and other characters to hyphens
generateIdFromPath(path) ==
    LET rest == IF path # <<>> /\ Head(path) \in {"src", "lib", "app"} /\ Len(path) > 1
                THEN Tail(path) ELSE path
    IN Flatten([i \in DOMAIN rest |->
                   generateIdFromName(IF i = Len(rest)
                                      THEN StripExtension(rest[i]) ELSE rest[i])])

mapSourceToModule(filePath) ==
    LET parts == Filter(filePath, Range(filePath) \ {"", ".", ".."})
        startIdx == IF parts # <<>> /\ parts[1] \in {"src", "lib", "app"} THEN 1 ELSE 0
    IN IF Len(parts) <= startIdx
       THEN [moduleId |-> generateIdFromPath(filePath), parentId |-> Null]
       ELSE LET directory == parts[startIdx + 1]
                fileName == StripExtension(parts[Len(parts)])
                moduleId == directoryToModule(directory)
                prefix == getSubModulePrefix(moduleId)
            IN [moduleId |-> <<prefix>> \o generateIdFromName(fileName),
                parentId |-> <<moduleId>>]

\* The SourceFileInfo analyzeCodeStructure builds for one file
SourceFileInfo(relPath) ==
    [relativePath |-> relPath,
     fileName |-> StripExtension(basename(relPath)),
     suggestedModuleId |-> mapSourceToModule(relPath).moduleId,
     suggestedParentId |-> mapSourceToModule(relPath).parentId]

DEFAULT_EXCLUDE ==
    {"node_modules", ".git", "dist", "build", ".ai-docs", ".cursor", ".next",
     ".nuxt", ".cache", "coverage", ".nyc_output"}

SOURCE_EXTENSIONS ==
    {".ts", ".tsx", ".js", ".jsx", ".py", ".go", ".rs", ".java", ".kt"}

TEST_PATTERNS == {"test", "spec", "__tests__", "__mocks__"}

BUILD_PATTERNS == {"dist", "build", ".next", ".nuxt", "coverage", "node_modules"}

\* relPath.includes(pattern), for a pattern without a separator
RelPathIncludes(relPath, pattern) ==
    \E i \in DOMAIN relPath : StrIncludes(relPath[i], pattern)

\* fileScanner.ts, shouldExclude in walkDir
shouldExclude(relPath, entry, excludePatterns) ==
    \E pattern \in excludePatterns :
        RelPathIncludes(relPath, pattern) \/ entry = pattern

\* fileScanner.ts, the include filter in walkDir
matchesInclude(relPath, entry, include) ==
    include # {} =>
        \E pattern \in include :
            RelPathIncludes(relPath, pattern) \/ StrIncludes(entry, pattern)

\* walkDir(dir) of scanProject: files after the walk of dir.  The root is
\* the empty path; fs.sourceFiles lists the files of the project outside
\* .ai-docs in readdir order.  A directory of fs.noAccess makes readdir
\* throw, a file of fs.noAccess makes stat throw; both are caught.  at
\* holds the values of one iteration.
RECURSIVE walkDir(_, _, _)
RECURSIVE WalkEntries(_, _, _, _)

WalkEntries(dir, entries, scanOptions, files) ==
    IF entries = <<>> THEN files
    ELSE Only({
        IF StartsWithDot(at.entry) /\ at.dir = <<>>
        THEN WalkEntries(at.dir, at.rest, scanOptions, at.files)
        ELSE IF shouldExclude(at.relPath, at.entry,
                              DEFAULT_EXCLUDE \cup scanOptions.exclude)
        THEN WalkEntries(at.dir, at.rest, scanOptions, at.files)
        ELSE IF isDirectory(fs.sourceFiles, at.relPath)
        THEN Only({WalkEntries(at.dir, at.rest, scanOptions, walked) :
                      walked \in {walkDir(at.relPath, scanOptions, at.files)}})
        ELSE IF at.relPath \in fs.noAccess
        THEN WalkEntries(at.dir, at.rest, scanOptions, at.files)
        ELSE IF ~matchesInclude(at.relPath, at.entry, scanOptions.include)
        THEN WalkEntries(at.dir, at.rest, scanOptions, at.files)
        ELSE Only({WalkEntries(at.dir, at.rest, scanOptions, pushed) :
                      pushed \in {Append(at.files, at.relPath)}}) :
        at \in {[dir |-> dir, entry |-> Head(entries),
                 relPath |-> Append(dir, Head(entries)),
                 rest |-> Tail(entries), files |-> files]}})

walkDir(dir, scanOptions, files) ==
    IF dir \in fs.noAccess THEN files
    ELSE Only({WalkEntries(dir, entries, scanOptions, files) :
                  entries \in {readdir(fs.sourceFiles, dir)}})

scanProject(scanOptions) == walkDir(<<>>, scanOptions, <<>>)

\* SOURCE_EXTENSIONS.map(ext => ext.slice(1))
ExtensionKeywords == {"ts", "tsx", "js", "jsx", "py", "go", "rs", "java", "kt"}

isTestFile(path) ==
    \E pattern \in TEST_PATTERNS :
        RelPathIncludes([i \in DOMAIN path |-> toLowerCase(path[i])], pattern)

isExcludedPath(path) ==
    \E pattern \in BUILD_PATTERNS :
        RelPathIncludes([i \in DOMAIN path |-> toLowerCase(path[i])], pattern)

\* The files scanProject returns to analyzeCodeStructure
allFiles ==
    Only({scanProject(scanOptions) :
             scanOptions \in {[exclude |-> BUILD_PATTERNS, include |-> ExtensionKeywords]}})

\* analyzeCodeStructure(root), when it does not throw
analyzeCodeStructure ==
    Only({[present |-> TRUE,
           sourceFiles |-> [i \in DOMAIN kept |-> SourceFileInfo(kept[i])]] :
          kept \in {Filter(allFiles,
                           {relPath \in Range(fs.sourceFiles) :
                               /\ ~isTestFile(relPath)
                               /\ ~isExcludedPath(relPath)
                               /\ getExtension(basename(relPath)) \in SOURCE_EXTENSIONS})}})

NoCodeStructure == [present |-> FALSE, sourceFiles |-> <<>>]

\* m.path.replace('.ai-docs/docs/', '')
DocsRelative(path) ==
    IF IsPrefix(docsDir, path) /\ Len(path) > Len(docsDir)
    THEN SubSeq(path, Len(docsDir) + 1, Len(path))
    ELSE path

\* relativePath.includes(needle): needle occurs in relativePath as a string
PathIncludes(relativePath, needle) ==
    \E k \in 1..(Len(relativePath) - Len(needle) + 1) :
        IF Len(needle) = 1
        THEN StrIncludes(relativePath[k], needle[1])
        ELSE \A j \in 1..Len(needle) : relativePath[k + j - 1] = needle[j]

\* m.path && file.relativePath.includes(m.path.replace('.ai-docs/docs/', ''))
PathMatches(module, relativePath) ==
    module.path # <<>> /\ PathIncludes(relativePath, DocsRelative(module.path))

\* Array.prototype.find over Object.values(t): the index of the first
\* entry that satisfies the test, 0 when there is none
FirstIndex(t, matching) ==
    IF \E i \in DOMAIN t : i \in matching
    THEN CHOOSE i \in DOMAIN t : i \in matching /\ \A j \in 1..(i - 1) : j \notin matching
    ELSE 0

Suggestion(moduleId, suggestedParent, confidence) ==
    [moduleId |-> moduleId, suggestedParent |-> suggestedParent,
     confidence |-> confidence]

\* The "Suggest sub-modules" loop body of suggestModuleHierarchy
SuggestSubModule(file, parentId, existingModules) ==
    LET found == FirstIndex(existingModules,
                    {i \in DOMAIN existingModules :
                        PathMatches(existingModules[i].val, file.relativePath)})
    IN IF found = 0
       THEN <<Suggestion(file.suggestedModuleId, parentId, "high")>>
       ELSE IF existingModules[found].val.parent \in {RootId, Null}
       THEN <<Suggestion(existingModules[found].val.id, parentId, "medium")>>
       ELSE <<>>

\* The loop body over moduleToFiles.entries()
SuggestForParent(parentId, files, existingModules) ==
    (IF ~TreeHas(existingModules, parentId)
     THEN <<Suggestion(parentId, RootId, "high")>>
     ELSE <<>>)
    \o Flatten([i \in DOMAIN files |->
                   SuggestSubModule(files[i], parentId, existingModules)])

\* The keys of moduleToFiles in insertion order
RECURSIVE ParentIdsOf(_, _)
ParentIdsOf(sourceFiles, seen) ==
    IF sourceFiles = <<>> THEN seen
    ELSE ParentIdsOf(Tail(sourceFiles),
            IF Head(sourceFiles).suggestedParentId # Null
               /\ ~Contains(seen, Head(sourceFiles).suggestedParentId)
            THEN Append(seen, Head(sourceFiles).suggestedParentId)
            ELSE seen)

suggestModuleHierarchy(sourceFiles, existingModules) ==
    LET parents == ParentIdsOf(sourceFiles, <<>>)
        filesOf(parentId) ==
            Filter(sourceFiles,
                   {f \in Range(sourceFiles) : f.suggestedParentId = parentId})
    IN Flatten([i \in DOMAIN parents |->
                   SuggestForParent(parents[i], filesOf(parents[i]), existingModules)])

----------------------------------------------------------------------------
(* Step 5 of handleScan.                                                   *)

generateEntryForSourceFile(sourceFile) ==
    [TreeEntry(sourceFile.suggestedModuleId,
               [i \in DOMAIN SplitWords(sourceFile.fileName) |->
                   Capitalize(SplitWords(sourceFile.fileName)[i])],
               sourceFile.suggestedParentId, ReferencedOrder, <<>>)
        EXCEPT !.sourceFile = sourceFile.relativePath,
               !.suggestedParent = sourceFile.suggestedParentId,
               !.isSourceFile = "true"]

\* The parent module entry created for a virtual entry
ParentModuleEntry(parent) ==
    [TreeEntry(parent,
               [i \in DOMAIN parent |->
                   IF i = 1 THEN Capitalize(parent[i]) ELSE parent[i]],
               RootId, ParentModuleOrder, <<>>)
        EXCEPT !.isSourceFile = "false"]

\* The index of the entry Object.values(tree).find(...) returns for a
\* source file, 0 when it returns undefined
MatchingModule(t, sourceFile) ==
    FirstIndex(t, {i \in DOMAIN t :
        \/ t[i].val.id = sourceFile.suggestedModuleId
        \/ t[i].val.id = sourceFile.suggestedParentId
        \/ PathMatches(t[i].val, sourceFile.relativePath)})

\* The autoLink branch: the tree after the virtual entry of a source file
\* (and, when it is created, its parent module) has been inserted
CreateVirtualEntry(t, sourceFile, sourceFiles) ==
    LET entry == generateEntryForSourceFile(sourceFile)
        uniqueId == UniqueId(t, entry.id)
        parentFiles == Filter(sourceFiles,
                          {sf \in Range(sourceFiles) :
                              sf.suggestedParentId = entry.parent})
        needParent == entry.parent # Null /\ ~TreeHas(t, entry.parent)
        t1 == IF needParent /\ Len(parentFiles) > 0
              THEN Put(t, entry.parent, ParentModuleEntry(entry.parent))
              ELSE t
        parent == IF needParent /\ Len(parentFiles) = 0 THEN Null ELSE entry.parent
    IN Put(t1, uniqueId, [entry EXCEPT !.id = uniqueId, !.parent = parent])

\* An iteration that links to a matching node and creates no node
LinkSourceFileToMatchOnly(t, sourceFile, sourceFiles) ==
    LET m == MatchingModule(t, sourceFile)
    IN IF m # 0
       THEN [t EXCEPT ![m].val.sourceFiles = Append(@, sourceFile.relativePath)]
       ELSE t

\* One iteration of "Link source files to existing modules"
LinkSourceFile(t, sourceFile, sourceFiles) ==
    LET m == MatchingModule(t, sourceFile)
    IN IF m # 0
       THEN [t EXCEPT ![m].val.sourceFiles = Append(@, sourceFile.relativePath)]
       ELSE IF options.autoLink
       THEN CreateVirtualEntry(t, sourceFile, sourceFiles)
       ELSE t

RECURSIVE LinkSourceFiles(_, _, _)
LinkSourceFiles(t, todo, sourceFiles) ==
    IF todo = <<>> THEN t
    ELSE Only({LinkSourceFiles(t1, Tail(todo), sourceFiles) :
                  t1 \in {LinkSourceFile(t, Head(todo), sourceFiles)}})

\* An iteration that does not look at the parent the node has
ApplySuggestionToAnyParent(t, suggestion) ==
    IF suggestion.confidence = "high" /\ HasKey(t, suggestion.moduleId)
    THEN Put(t, suggestion.moduleId,
             [Get(t, suggestion.moduleId) EXCEPT
                 !.parent = suggestion.suggestedParent,
                 !.suggestedParent = suggestion.suggestedParent])
    ELSE t

\* An iteration that does not look at the confidence of the suggestion
ApplySuggestionOfAnyConfidence(t, suggestion) ==
    IF TreeHas(t, suggestion.moduleId)
       /\ ParentAt(t, suggestion.moduleId) \in {RootId, Null}
    THEN Put(t, suggestion.moduleId,
             [Get(t, suggestion.moduleId) EXCEPT
                 !.parent = suggestion.suggestedParent,
                 !.suggestedParent = suggestion.suggestedParent])
    ELSE t

\* One iteration of "Apply hierarchy suggestions"
ApplySuggestion(t, suggestion) ==
    IF suggestion.confidence = "high" /\ TreeHas(t, suggestion.moduleId)
       /\ ParentAt(t, suggestion.moduleId) \in {RootId, Null}
    THEN Put(t, suggestion.moduleId,
             [Get(t, suggestion.moduleId) EXCEPT
                 !.parent = suggestion.suggestedParent,
                 !.suggestedParent = suggestion.suggestedParent])
    ELSE t

RECURSIVE ApplySuggestions(_, _)
ApplySuggestions(t, todo) ==
    IF todo = <<>> THEN t
    ELSE Only({ApplySuggestions(t1, Tail(todo)) :
                  t1 \in {ApplySuggestion(t, Head(todo))}})

----------------------------------------------------------------------------
(* Step 6: update module entries with source files.                        *)

UpdateSourceFiles(moduleId, entry, sourceFiles) ==
    LET moduleSourceFiles ==
            Filter(sourceFiles,
                   {sf \in Range(sourceFiles) :
                       \/ mapSourceToModule(sf.relativePath).moduleId = moduleId
                       \/ mapSourceToModule(sf.relativePath).parentId = moduleId})
    IN IF Len(entry.sourceFiles) > 0 \/ Len(moduleSourceFiles) = 0
       THEN entry
       ELSE [entry EXCEPT !.sourceFiles =
                [i \in DOMAIN moduleSourceFiles |-> moduleSourceFiles[i].relativePath]]

UpdateModuleEntries(t, sourceFiles) ==
    [i \in DOMAIN t |->
        [key |-> t[i].key,
         val |-> UpdateSourceFiles(t[i].key, t[i].val, sourceFiles)]]

----------------------------------------------------------------------------
(* Step 7: validateHierarchy.  st = [circular, orphaned, visited,          *)
(* visiting]; a cycle is the sequence of ids the source joins with ' -> '. *)

\* path.indexOf(id), from 1; 0 when id is not in path
IndexOf(path, id) ==
    IF Contains(path, id)
    THEN CHOOSE i \in DOMAIN path : path[i] = id /\ \A j \in 1..(i - 1) : path[j] # id
    ELSE 0

\* checkCircular on an id that is being visited
RecordCycle(id, path, st) ==
    IF IndexOf(path, id) # 0
    THEN [st EXCEPT !.circular =
            Append(@, Append(SubSeq(path, IndexOf(path, id), Len(path)), id))]
    ELSE st

\* visiting.delete(id) without visited.add(id)
MarkNotVisiting(id, st) == [st EXCEPT !.visiting = @ \ {id}]

\* visiting.delete(id); visited.add(id)
MarkVisited(id, st) ==
    [st EXCEPT !.visiting = @ \ {id}, !.visited = @ \cup {id}]

RECURSIVE checkCircular(_, _, _, _)
checkCircular(t, id, path, st) ==
    IF id \in st.visiting THEN RecordCycle(id, path, st)
    ELSE IF id \in st.visited THEN st
    ELSE LET st1 == [st EXCEPT !.visiting = @ \cup {id}]
         IN IF ~TreeHas(t, id)
            THEN MarkVisited(id, [st1 EXCEPT !.orphaned = Append(@, id)])
            ELSE IF ParentAt(t, id) # Null
            THEN Only({MarkVisited(id, s) :
                          s \in {checkCircular(t, ParentAt(t, id), Append(path, id), st1)}})
            ELSE MarkVisited(id, st1)

RECURSIVE CheckAll(_, _, _)
CheckAll(t, ids, st) ==
    IF ids = <<>> THEN st
    ELSE Only({CheckAll(t, Tail(ids), s) :
                  s \in {IF Head(ids) \in st.visited THEN st
                         ELSE checkCircular(t, Head(ids), <<>>, st)}})

\* The "Check for orphaned nodes" loop: the ids it pushes
OrphanedNodes(t) ==
    Filter(Keys(t),
           {t[i].key : i \in {j \in DOMAIN t :
                t[j].val.parent # Null /\ ~TreeHas(t, t[j].val.parent)}})

validateHierarchy(t) ==
    LET st == CheckAll(t, Keys(t),
                       [circular |-> <<>>, orphaned |-> <<>>,
                        visited |-> {}, visiting |-> {}])
    IN [circular |-> st.circular, orphaned |-> st.orphaned \o OrphanedNodes(t)]

----------------------------------------------------------------------------
(* Step 8: children arrays.                                                *)

\* An iteration that sets the list of the parent instead of pushing to it
AddChildOverwriting(childrenMap, id, entry) ==
    IF entry.parent # Null
    THEN Put(childrenMap, entry.parent, <<id>>)
    ELSE childrenMap

\* One iteration of the loop that fills childrenMap
AddChild(childrenMap, id, entry) ==
    IF entry.parent # Null
    THEN Put(childrenMap, entry.parent,
             Append(IF HasKey(childrenMap, entry.parent)
                    THEN Get(childrenMap, entry.parent) ELSE <<>>, id))
    ELSE childrenMap

RECURSIVE BuildChildrenMap(_, _)
BuildChildrenMap(t, childrenMap) ==
    IF t = <<>> THEN childrenMap
    ELSE Only({BuildChildrenMap(Tail(t), m) :
                  m \in {AddChild(childrenMap, Head(t).key, Head(t).val)}})

\* { ...entry, children: childrenMap.get(id) || [] }
WithChildren(childrenMap, id, entry) ==
    [children |-> IF HasKey(childrenMap, id) THEN Get(childrenMap, id) ELSE <<>>]
        @@ entry

BuildTreeWithChildren(t) ==
    LET childrenMap == BuildChildrenMap(t, <<>>)
    IN [i \in DOMAIN t |->
           [key |-> t[i].key, val |-> WithChildren(childrenMap, t[i].key, t[i].val)]]

----------------------------------------------------------------------------
(* The projects the runs are checked on.                                   *)

MaxDocs == 3

MaxLinks == 2

MaxSourceFiles == 2

DocA == <<AiDocs, DocsDirName, "a.md">>

DocUtilSlashA == <<AiDocs, DocsDirName, "util", "a.md">>

DocUtilA == <<AiDocs, DocsDirName, "util-a.md">>

DocFilesB == <<AiDocs, FilesDirName, "b.md">>

\* readdir order, .ai-docs/docs before .ai-docs/files
DocUniverse == <<DocA, DocUtilSlashA, DocUtilA, DocFilesB>>

DocsDirDocs == {DocA, DocUtilSlashA, DocUtilA}

SrcUtilsA == <<"src", "utils", "a.ts">>

SrcUtilsFileScanner == <<"src", "utils", "fileScanner.ts">>

SrcLlmClient == <<"src", "llm", "llmClient.ts">>

SourceUniverse == <<SrcUtilsA, SrcUtilsFileScanner, SrcLlmClient>>

IdA == <<"a">>

IdUtilA == <<"util", "a">>

IdUtils == <<"utils">>

IdB == <<"b">>

NoHeader == [id |-> Null, parent |-> Null]

Headers(ids, parents) == {NoHeader} \cup [id : ids, parent : parents]

\* title and order fields of the metadata block of each document
TitleIn(path) == IF path = DocA THEN <<"Doc", "A">>
                 ELSE IF path = DocUtilSlashA THEN <<"Guide">> ELSE Null

OrderIn(path) == IF path = DocA THEN <<5>>
                 ELSE IF path = DocUtilSlashA THEN <<20>> ELSE <<>>

RECURSIVE CommonPrefixLen(_, _)
CommonPrefixLen(a, b) ==
    IF a = <<>> \/ b = <<>> \/ Head(a) # Head(b) THEN 0
    ELSE 1 + CommonPrefixLen(Tail(a), Tail(b))

\* A relative markdown link from the document at `from` to the path `to`
LinkTo(from, to) ==
    LET dir == dirname(from)
        n == CommonPrefixLen(dir, to)
    IN [Token("link") EXCEPT
            !.form = "rel",
            !.segs = [i \in 1..(Len(dir) - n) |-> ".."] \o SubSeq(to, n + 1, Len(to))]

ExternalLink ==
    [Token("link") EXCEPT !.form = "ext", !.segs = <<"https:", "example.com", "a.md">>]

\* A metadata block with the key-value pairs of meta
MetadataBlock(meta) ==
    <<Delimiter, Newline, [Token("mapping") EXCEPT !.meta = meta], Newline,
      Delimiter, Newline>>

\* A body: an external link followed by a link to each target
Body(path, targets) ==
    IF targets = <<>> THEN <<>>
    ELSE <<ExternalLink>> \o [i \in DOMAIN targets |-> LinkTo(path, targets[i])]

\* The document at path: a metadata block when the header gives an id,
\* then the body
Document(path, header, targets) ==
    [path |-> path, readable |-> TRUE,
     content |->
        (IF header.id = Null THEN <<>>
         ELSE MetadataBlock([id |-> header.id, parent |-> header.parent,
                             title |-> TitleIn(path), order |-> OrderIn(path),
                             elements |-> <<>>]))
        \o Body(path, targets)]

\* The documents of a project: those of `present`, with the header
\* headerOf[p] and the links of `links` (pairs <<from, to>>)
Documents(present, headerOf, links) ==
    LET paths == Filter(DocUniverse, present)
    IN [i \in DOMAIN paths |->
           Document(paths[i], headerOf[paths[i]],
                    Filter(DocUniverse, {t \in Range(DocUniverse) : <<paths[i], t>> \in links}))]

SubsetsUpTo(S, n) == {T \in SUBSET S : Cardinality(T) <= n}

DefaultOptions == [analyzeCode |-> TRUE, suggestOnly |-> FALSE, autoLink |-> TRUE]

AllOptions == [analyzeCode : BOOLEAN, suggestOnly : BOOLEAN, autoLink : BOOLEAN]

\* The tree file a previous run left behind
PreviousTree ==
    <<[key |-> <<"old">>,
       val |-> [children |-> <<>>] @@
               TreeEntry(<<"old">>, <<"Old">>, Null, DefaultOrder,
                         <<AiDocs, DocsDirName, "old.md">>)]>>

Project(dirState, docs, sources, fails) ==
    [docsDir |-> dirState, docs |-> docs,
     sourceFiles |-> Filter(SourceUniverse, sources), analysisFails |-> fails,
     noAccess |-> {}]

----------------------------------------------------------------------------
(* Initial states: handleScan is about to run on a project.                *)

EmptyValidation == [circular |-> <<>>, orphaned |-> <<>>]

InitWith(project, opts) ==
    /\ fs = project
    /\ options = opts
    /\ treeFile = PreviousTree
    /\ pc = "start"
    /\ mdFiles = <<>>
    /\ tree = <<>>
    /\ warnings = <<>>
    /\ duplicateIds = <<>>
    /\ filePathToId = <<>>
    /\ allReferencedPaths = <<>>
    /\ codeStructure = NoCodeStructure
    /\ suggestions = <<>>
    /\ validation = EmptyValidation
    /\ treeWithChildren = <<>>
    /\ writes = 0
    /\ finished = {}

\* Documents in every arrangement of ids, parents and links; no source files
InitDocuments ==
    \E present \in SubsetsUpTo(DocsDirDocs, MaxDocs) :
    \E headerOf \in [present -> Headers({IdA, IdUtilA}, {Null, IdA, IdUtilA})] :
    \E links \in SubsetsUpTo(present \X DocsDirDocs, MaxLinks) :
        InitWith(Project("readable", Documents(present, headerOf, links), {}, FALSE),
                 DefaultOptions)

\* Source files next to documents whose ids and parents meet the inferred
\* ones, under every setting of the switches
InitCode ==
    \E present \in SubsetsUpTo(DocsDirDocs, MaxDocs - 1) :
    \E headerOf \in [present -> Headers({IdUtilA, IdUtils}, {Null, RootId, IdA})] :
    \E links \in {{}, {<<DocA, DocUtilA>>}, {<<DocUtilSlashA, DocUtilA>>}} :
    \E sources \in SubsetsUpTo(Range(SourceUniverse), MaxSourceFiles) :
    \E opts \in AllOptions :
        /\ \A l \in links : l[1] \in present /\ l[2] \in present
        /\ InitWith(Project("readable", Documents(present, headerOf, links),
                            sources, FALSE), opts)

\* The failures the source catches: the documentation root missing or not
\* readable, a document that cannot be read, a throwing code analysis.
\* Every document links to every other one.
InitFaults ==
    \E dirState \in {"missing", "unreadable", "readable"} :
    \E present \in SUBSET {DocA, DocUtilA, DocFilesB} :
    \E withId \in SUBSET present :
    \E unreadable \in SubsetsUpTo(present, 1) :
    \E fails \in BOOLEAN :
        LET ownId(p) == IF p = DocA THEN IdA ELSE IF p = DocUtilA THEN IdUtilA ELSE IdB
            docs == Documents(present,
                        [p \in present |->
                            IF p \in withId THEN [id |-> ownId(p), parent |-> Null]
                            ELSE NoHeader],
                        {l \in present \X present : l[1] # l[2]})
        IN /\ dirState = "missing" => present \subseteq {DocFilesB}
           /\ InitWith(Project(dirState,
                            [i \in DOMAIN docs |->
                                [docs[i] EXCEPT !.readable = (docs[i].path \notin unreadable)]],
                            {SrcUtilsA}, fails),
                       DefaultOptions)

\* The scenarios of section 8 of the specification
DocIndex == <<AiDocs, DocsDirName, "ai-index.md">>

DocBilling == <<AiDocs, DocsDirName, "modules", "billing.md">>

IdBilling == <<"billing">>

IdDup == <<"dup">>

ScenarioDocument(path, id, title, parent, order, targets) ==
    [path |-> path, readable |-> TRUE,
     content |->
        MetadataBlock([id |-> id, parent |-> parent, title |-> title,
                       order |-> order, elements |-> <<>>])
        \o Body(path, targets)]

InitScenarios ==
    \E docs \in
        {<<ScenarioDocument(DocIndex, RootId, <<"Project", "Overview">>, Null, <<0>>, <<>>),
           ScenarioDocument(DocBilling, IdBilling, <<"Billing", "Module">>, RootId, <<20>>, <<>>)>>,
         <<ScenarioDocument(DocA, IdA, <<"A">>, Null, <<0>>, <<DocFilesB>>),
           Document(DocFilesB, NoHeader, <<>>)>>,
         <<ScenarioDocument(DocA, IdDup, <<"First">>, Null, <<1>>, <<>>),
           ScenarioDocument(DocUtilA, IdDup, <<"Second">>, Null, <<2>>, <<>>)>>} :
        InitWith([docsDir |-> "readable", docs |-> docs, sourceFiles |-> <<>>,
                  analysisFails |-> FALSE, noAccess |-> {}],
                 DefaultOptions)

IdConstructor == <<"constructor">>

\* Three documents that each declare an id, under every choice of parents:
\* chains, cycles of every length, tails into cycles, missing parents
\* (root, and constructor, a name every plain object inherits)
InitHierarchy ==
    \E parentOf \in [{DocA, DocUtilA, DocFilesB} ->
                        {Null, IdA, IdUtilA, IdB, RootId, IdConstructor}] :
        LET idOf(p) == IF p = DocA THEN IdA ELSE IF p = DocUtilA THEN IdUtilA ELSE IdB
        IN InitWith(Project("readable",
                        Documents({DocA, DocUtilA, DocFilesB},
                            [p \in {DocA, DocUtilA, DocFilesB} |->
                                [id |-> idOf(p), parent |-> parentOf[p]]],
                            {}),
                        {}, FALSE),
                    DefaultOptions)

\* A source file whose path holds the docs-relative path of a.md
SrcUtilsAMd == <<"src", "utils", "a.md.ts">>

\* a.md and util-a.md beside src/utils/a.md.ts and src/utils/a.ts, under
\* every setting of the switches: suggestions of high and of medium
\* confidence for nodes with and without a parent
InitSuggestions ==
    \E headerOf \in [{DocA, DocUtilA} ->
                        Headers({IdA, IdUtilA}, {Null, RootId, IdUtils})] :
    \E sources \in SUBSET {SrcUtilsAMd, SrcUtilsA} :
    \E opts \in AllOptions :
        InitWith([docsDir |-> "readable",
                  docs |-> Documents({DocA, DocUtilA}, headerOf, {<<DocUtilA, DocA>>}),
                  sourceFiles |-> Filter(<<SrcUtilsAMd, SrcUtilsA>>, sources),
                  analysisFails |-> FALSE, noAccess |-> {}],
                 opts)

\* The number of tokens of a text
MaxTokens == 7

\* The lines of a text: "---", the key-value pair id: a, a sequence line
\* "- a", the word "a", a link to util-a.md
TextLines ==
    {Delimiter,
     [Token("mapping") EXCEPT !.meta.id = IdA],
     [Token("sequence") EXCEPT !.meta.elements = <<"a">>],
     Token("scalar"),
     LinkTo(DocA, DocUtilA)}

\* Every text of up to MaxTokens tokens in which line breaks separate the
\* lines
Texts ==
    {t \in UNION {[1..n -> TextLines \cup {Newline}] : n \in 0..MaxTokens} :
        \A i \in DOMAIN t : t[i] # Newline => i = 1 \/ t[i - 1] = Newline}

\* a.md holds any text, beside a headerless util-a.md and a source file
InitTexts ==
    \E t \in Texts :
        InitWith([docsDir |-> "readable",
                  docs |-> <<[path |-> DocA, readable |-> TRUE, content |-> t],
                             Document(DocUtilA, NoHeader, <<>>)>>,
                  sourceFiles |-> <<SrcUtilsA>>, analysisFails |-> FALSE, noAccess |-> {}],
                 DefaultOptions)

\* A document in .ai-docs/docs-old, a directory beside .ai-docs/docs
DocOldA == <<AiDocs, "docs-old", "a.md">>

\* a.md links to .ai-docs/docs-old/a.md, once or twice, or to
\* .ai-docs/files/b.md; the document in docs-old may link back
InitSiblingDirectory ==
    \E headerOf \in [{DocA, DocOldA} -> Headers({IdA, IdUtilA}, {Null})] :
    \E targets \in {<<DocOldA>>, <<DocOldA, DocOldA>>, <<DocFilesB, DocOldA>>} :
    \E back \in {<<>>, <<DocA>>} :
        InitWith([docsDir |-> "readable",
                  docs |-> <<Document(DocA, headerOf[DocA], targets),
                             Document(DocOldA, headerOf[DocOldA], back),
                             Document(DocFilesB, NoHeader, <<>>)>>,
                  sourceFiles |-> <<>>, analysisFails |-> FALSE, noAccess |-> {}],
                 DefaultOptions)

\* The number of files of a project beside its documents
MaxProjectFiles == 3

\* Files of a project in readdir order: a configuration file and a script,
\* build output, a directory whose name holds the word build, a text file
ProjectFiles ==
    <<<<".eslintrc.js">>, <<"dist", "a.ts">>, <<"scripts", "run.sh">>,
      <<"src", "builder", "a.ts">>, <<"src", "llm", "llmClient.ts">>,
      <<"src", "utils", "a.ts">>, <<"src", "utils", "fileScanner.ts">>,
      <<"src", "utils", "notes.txt">>>>

\* Projects of up to MaxProjectFiles files and the three documents, of
\* which at most one file or directory cannot be accessed
InitProject ==
    \E sources \in SubsetsUpTo(Range(ProjectFiles), MaxProjectFiles) :
    \E present \in SUBSET DocsDirDocs :
    \E noAccess \in SubsetsUpTo({DocA, DocUtilSlashA, dirname(DocUtilSlashA),
                                  SrcUtilsA, dirname(SrcUtilsA), <<"src">>}, 1) :
        InitWith([docsDir |-> "readable",
                  docs |-> Documents(present, [p \in present |-> NoHeader], {}),
                  sourceFiles |-> Filter(ProjectFiles, sources),
                  analysisFails |-> FALSE, noAccess |-> noAccess],
                 DefaultOptions)

\* a.md declares the module utils and util-a.md the node util-a, each
\* under the other, under root or under nothing, beside the source files
\* of src/utils, under every setting of the switches
InitModuleDocuments ==
    \E parentOfUtils \in {Null, RootId, IdUtilA} :
    \E parentOfUtilA \in {Null, RootId, IdUtils} :
    \E sources \in SUBSET {SrcUtilsA, SrcUtilsFileScanner} :
    \E opts \in AllOptions :
        InitWith(Project("readable",
                         Documents({DocA, DocUtilA},
                                   [p \in {DocA, DocUtilA} |->
                                       IF p = DocA
                                       THEN [id |-> IdUtils, parent |-> parentOfUtils]
                                       ELSE [id |-> IdUtilA, parent |-> parentOfUtilA]],
                                   {}),
                         sources, FALSE),
                 opts)

Init ==
    \/ InitDocuments
    \/ InitCode
    \/ InitFaults
    \/ InitScenarios
    \/ InitHierarchy
    \/ InitSuggestions
    \/ InitSiblingDirectory
    \/ InitModuleDocuments

----------------------------------------------------------------------------
(* handleScan, step by step.                                               *)

Run == <<mdFiles, tree, warnings, duplicateIds, filePathToId,
         allReferencedPaths, codeStructure, suggestions, validation,
         treeWithChildren>>

\* if (!existsSync(docsDir)) process.exit(1)
CheckDocsDir ==
    /\ pc = "start"
    /\ pc' = IF existsSync(docsDir) THEN "find" ELSE "exited"
    /\ UNCHANGED <<fs, options, treeFile, Run, writes, finished>>

\* Step 1 without the return that follows the write of the empty tree
FindFilesThenGoOn ==
    /\ pc = "find"
    /\ mdFiles' = findMarkdownFiles(docsDir) \o findMarkdownFiles(filesDir)
    /\ IF mdFiles' = <<>>
       THEN treeFile' = <<>> /\ writes' = writes + 1
       ELSE UNCHANGED <<treeFile, writes>>
    /\ pc' = "parse"
    /\ UNCHANGED <<fs, options, tree, warnings, duplicateIds, filePathToId,
                   allReferencedPaths, codeStructure, suggestions, validation,
                   treeWithChildren, finished>>

\* 1. Find all .md files; with none, write the empty tree and return
FindFiles ==
    /\ pc = "find"
    /\ mdFiles' = findMarkdownFiles(docsDir) \o findMarkdownFiles(filesDir)
    /\ IF mdFiles' = <<>>
       THEN /\ treeFile' = <<>>
            /\ writes' = writes + 1
            /\ pc' = "done"
       ELSE /\ pc' = "parse"
            /\ UNCHANGED <<treeFile, writes>>
    /\ UNCHANGED <<fs, options, tree, warnings, duplicateIds, filePathToId,
                   allReferencedPaths, codeStructure, suggestions, validation,
                   treeWithChildren, finished>>

\* A run that starts from the nodes the tree file holds
TreeOfPreviousRun == treeFile

\* const tree: TreeData = {}
NewTree == <<>>

\* 2. Parse frontmatter for each file
ParseFrontmatter ==
    /\ pc = "parse"
    /\ LET st == ParseFiles(mdFiles,
                    [tree |-> NewTree, warnings |-> <<>>, duplicateIds |-> <<>>,
                     filePathToId |-> <<>>])
       IN /\ tree' = st.tree
          /\ warnings' = st.warnings
          /\ duplicateIds' = st.duplicateIds
          /\ filePathToId' = st.filePathToId
    /\ pc' = "references"
    /\ finished' = finished \cup {"parse"}
    /\ UNCHANGED <<fs, options, treeFile, mdFiles, allReferencedPaths,
                   codeStructure, suggestions, validation, treeWithChildren, writes>>

\* 3. Find all referenced files recursively
FindReferenced ==
    /\ pc = "references"
    /\ allReferencedPaths' = findAllReferencedFiles(Keys(filePathToId))
    /\ pc' = "addReferenced"
    /\ UNCHANGED <<fs, options, treeFile, mdFiles, tree, warnings, duplicateIds,
                   filePathToId, codeStructure, suggestions, validation,
                   treeWithChildren, writes, finished>>

\* 4. Add referenced files that aren't already in the tree
AddReferenced ==
    /\ pc = "addReferenced"
    /\ LET st == AddReferencedFiles(allReferencedPaths,
                    [tree |-> tree, warnings |-> warnings,
                     filePathToId |-> filePathToId])
       IN /\ tree' = st.tree
          /\ warnings' = st.warnings
          /\ filePathToId' = st.filePathToId
    /\ pc' = "analyze"
    /\ finished' = finished \cup {"merge"}
    /\ UNCHANGED <<fs, options, treeFile, mdFiles, duplicateIds,
                   allReferencedPaths, codeStructure, suggestions, validation,
                   treeWithChildren, writes>>

\* 5. analyzeCodeStructure and suggestModuleHierarchy; a throw is caught
\* and leaves codeStructure null
AnalyzeCode ==
    /\ pc = "analyze"
    /\ IF options.analyzeCode /\ ~fs.analysisFails
       THEN /\ codeStructure' = analyzeCodeStructure
            /\ suggestions' = suggestModuleHierarchy(codeStructure'.sourceFiles, tree)
            /\ pc' = "link"
            /\ UNCHANGED finished
       ELSE /\ pc' = "update"
            /\ finished' = finished \cup {"link", "apply"}
            /\ UNCHANGED <<codeStructure, suggestions>>
    /\ UNCHANGED <<fs, options, treeFile, mdFiles, tree, warnings, duplicateIds,
                   filePathToId, allReferencedPaths, validation,
                   treeWithChildren, writes>>

\* 5. Link source files to existing modules, or create virtual entries
LinkSources ==
    /\ pc = "link"
    /\ tree' = LinkSourceFiles(tree, codeStructure.sourceFiles,
                               codeStructure.sourceFiles)
    /\ pc' = "apply"
    /\ finished' = finished \cup {"link"}
    /\ UNCHANGED <<fs, options, treeFile, mdFiles, warnings, duplicateIds,
                   filePathToId, allReferencedPaths, codeStructure, suggestions,
                   validation, treeWithChildren, writes>>

\* The same step without the test of options.suggestOnly
ApplyWhateverTheMode ==
    /\ pc = "apply"
    /\ tree' = IF Len(suggestions) > 0
               THEN ApplySuggestions(tree, suggestions)
               ELSE tree
    /\ pc' = "update"
    /\ finished' = finished \cup {"apply"}
    /\ UNCHANGED <<fs, options, treeFile, mdFiles, warnings, duplicateIds,
                   filePathToId, allReferencedPaths, codeStructure, suggestions,
                   validation, treeWithChildren, writes>>

\* 5. Apply hierarchy suggestions if not in suggest-only mode
ApplyHierarchySuggestions ==
    /\ pc = "apply"
    /\ tree' = IF ~options.suggestOnly /\ Len(suggestions) > 0
               THEN ApplySuggestions(tree, suggestions)
               ELSE tree
    /\ pc' = "update"
    /\ finished' = finished \cup {"apply"}
    /\ UNCHANGED <<fs, options, treeFile, mdFiles, warnings, duplicateIds,
                   filePathToId, allReferencedPaths, codeStructure, suggestions,
                   validation, treeWithChildren, writes>>

\* 6. Update module entries with source files
UpdateModules ==
    /\ pc = "update"
    /\ tree' = IF codeStructure.present
               THEN UpdateModuleEntries(tree, codeStructure.sourceFiles)
               ELSE tree
    /\ pc' = "validate"
    /\ finished' = finished \cup {"update"}
    /\ UNCHANGED <<fs, options, treeFile, mdFiles, warnings, duplicateIds,
                   filePathToId, allReferencedPaths, codeStructure, suggestions,
                   validation, treeWithChildren, writes>>

\* The warnings step 7 adds for the findings of validateHierarchy
ValidationWarnings(v) ==
    [i \in DOMAIN v.orphaned |-> Warning("orphan", v.orphaned[i])]
    \o (IF Len(v.circular) > 0
        THEN <<Warning("circular", Flatten(v.circular))>> ELSE <<>>)

\* A step 7 that repairs what it finds: the parent of a node whose parent
\* is missing, or that starts a reported cycle, is set to null
ValidateAndRepair ==
    /\ pc = "validate"
    /\ validation' = validateHierarchy(tree)
    /\ tree' = [i \in DOMAIN tree |->
                  IF \/ Contains(validation'.orphaned, tree[i].key)
                     \/ \E j \in DOMAIN validation'.circular :
                            validation'.circular[j][1] = tree[i].key
                  THEN [tree[i] EXCEPT !.val.parent = Null]
                  ELSE tree[i]]
    /\ warnings' = warnings \o ValidationWarnings(validation')
    /\ pc' = "children"
    /\ finished' = finished \cup {"validate"}
    /\ UNCHANGED <<fs, options, treeFile, mdFiles, duplicateIds,
                   filePathToId, allReferencedPaths, codeStructure, suggestions,
                   treeWithChildren, writes>>

\* 7. Validate parent references and check for circular references
Validate ==
    /\ pc = "validate"
    /\ validation' = validateHierarchy(tree)
    /\ warnings' = warnings \o ValidationWarnings(validation')
    /\ pc' = "children"
    /\ finished' = finished \cup {"validate"}
    /\ UNCHANGED <<fs, options, treeFile, mdFiles, tree, duplicateIds,
                   filePathToId, allReferencedPaths, codeStructure, suggestions,
                   treeWithChildren, writes>>

\* 8. Build children arrays for tree structure
BuildChildren ==
    /\ pc = "children"
    /\ treeWithChildren' = BuildTreeWithChildren(tree)
    /\ pc' = "write"
    /\ finished' = finished \cup {"children"}
    /\ UNCHANGED <<fs, options, treeFile, mdFiles, tree, warnings, duplicateIds,
                   filePathToId, allReferencedPaths, codeStructure, suggestions,
                   validation, writes>>

\* 9. Write tree to JSON
WriteTree ==
    /\ pc = "write"
    /\ treeFile' = treeWithChildren
    /\ writes' = writes + 1
    /\ pc' = "summary"
    /\ UNCHANGED <<fs, options, Run, finished>>

\* 10. Print summary, copy assets
Summary ==
    /\ pc = "summary"
    /\ pc' = "done"
    /\ UNCHANGED <<fs, options, treeFile, Run, writes, finished>>

Next ==
    \/ CheckDocsDir
    \/ FindFiles
    \/ ParseFrontmatter
    \/ FindReferenced
    \/ AddReferenced
    \/ AnalyzeCode
    \/ LinkSources
    \/ ApplyHierarchySuggestions
    \/ UpdateModules
    \/ Validate
    \/ BuildChildren
    \/ WriteTree
    \/ Summary

Spec == Init /\ [][Next]_vars

\* The runs that meet what could stop a run: a documentation root that is
\* missing or unreadable, unreadable documents, a throwing analysis, parent
\* cycles, orphans and duplicate ids
InitFindings == InitFaults \/ InitScenarios \/ InitHierarchy

\* handleScan is one sequential procedure: a step that can be taken is taken
FairSpec == InitFindings /\ [][Next]_vars /\ WF_vars(Next)

\* handleScan on documents of every shape of text
ParseSpec == InitTexts /\ [][Next]_vars

\* handleScan on projects with files the walks leave out
ScanSpec == InitProject /\ [][Next]_vars

\* The number of times handleScan is run on one project
MaxRuns == 2

\* handleScan is run again on the project as the last run left it: the
\* files, the switches and ai-tree.json stay, the process starts anew
Rerun ==
    /\ pc \in {"done", "exited"}
    /\ writes < MaxRuns
    /\ pc' = "start"
    /\ mdFiles' = <<>>
    /\ tree' = <<>>
    /\ warnings' = <<>>
    /\ duplicateIds' = <<>>
    /\ filePathToId' = <<>>
    /\ allReferencedPaths' = <<>>
    /\ codeStructure' = NoCodeStructure
    /\ suggestions' = <<>>
    /\ validation' = EmptyValidation
    /\ treeWithChildren' = <<>>
    /\ finished' = {}
    /\ UNCHANGED <<fs, options, treeFile, writes>>

NextRerun == Next \/ Rerun

RerunSpec == Init /\ [][NextRerun]_vars

----------------------------------------------------------------------------
(* Properties.                                                             *)

\* The tree file holds the tree of this run: step 9 has written it
TreeWritten == writes > 0 /\ pc \in {"summary", "done"} /\ mdFiles # <<>>

\* Step 2 has run
Parsed == "parse" \in finished

\* The id a document declares in its metadata block, Null for none
DeclaredId(path) ==
    IF CanRead(path) THEN parse(FileAt(path).content).meta.id ELSE Null

DeclaredParent(path) == parse(FileAt(path).content).meta.parent

\* The discovered documents that declare id, in discovery order
Declarers(id) == Filter(mdFiles, {p \in Range(mdFiles) : DeclaredId(p) = id})

\* The discovered documents that declare an id no later document declares
LastDeclarers ==
    {p \in Range(mdFiles) :
        DeclaredId(p) # Null /\ Last(Declarers(DeclaredId(p))) = p}

Occurrences(s, x) == Len(Filter(s, {x}))

NodesWithPath(t, path) == {i \in DOMAIN t : t[i].val.path = path}

KeysAreIds(t) ==
    /\ \A i \in DOMAIN t : t[i].val.id = t[i].key
    /\ \A i, j \in DOMAIN t : t[i].val.id = t[j].val.id => i = j

\* C1: in the tree, at every step of its assembly and in the file written
\* from it, every key holds a node whose id is that key, and no two nodes
\* share an id.
C1_KeysAreIds ==
    /\ KeysAreIds(tree)
    /\ KeysAreIds(treeWithChildren)
    /\ writes > 0 => KeysAreIds(treeFile)

\* A written tree with a suffixed node for a headerless document, a virtual
\* node for a source file and a synthesized parent module
C1_SuffixedAndVirtualWritten ==
    /\ TreeWritten
    /\ \E i \in DOMAIN treeFile :
           /\ treeFile[i].val.isReferenced
           /\ treeFile[i].key # generateEntryForReferencedFile(treeFile[i].val.path).id
    /\ \E i \in DOMAIN treeFile : treeFile[i].val.isSourceFile = "true"
    /\ \E i \in DOMAIN treeFile : treeFile[i].val.isSourceFile = "false"

LinksOf(d) == Range(ReferencesOf(d))

RECURSIVE LinkClosure(_)
LinkClosure(S) ==
    LET T == S \cup UNION {LinksOf(d) : d \in S}
    IN IF T = S THEN S ELSE LinkClosure(T)

\* The discovered documents that declare an id
ExplicitDocuments == {p \in Range(mdFiles) : DeclaredId(p) # Null}

\* The documents reachable from an explicit document through one or more
\* links
ReachableDocuments == UNION {LinksOf(d) : d \in LinkClosure(ExplicitDocuments)}

\* C3 as stated: every managed document reachable from an explicit
\* document through one or more links has a node in the written tree.
C3_ClosureComplete ==
    TreeWritten => \A d \in ReachableDocuments : NodesWithPath(treeFile, d) # {}

\* C3, amended: every readable managed document reachable from an explicit
\* document through one or more links has exactly one node in the written
\* tree, provided it declares no id, or was discovered and no
\* later-discovered document declares the same id.
C3_ReadableClosureComplete ==
    TreeWritten =>
        \A d \in ReachableDocuments :
            CanRead(d) /\ (DeclaredId(d) = Null \/ d \in LastDeclarers) =>
                Cardinality(NodesWithPath(treeFile, d)) = 1

\* A headerless document that no explicit document links to directly has
\* its node in the written tree
C3_IndirectlyReachedWritten ==
    /\ TreeWritten
    /\ \E d \in ReachableDocuments :
           /\ DeclaredId(d) = Null
           /\ d \notin UNION {LinksOf(e) : e \in ExplicitDocuments}
           /\ NodesWithPath(treeFile, d) # {}

\* The parent relation of a tree
ParentIn(t, id) == IF HasKey(t, id) THEN Get(t, id).parent ELSE Null

RECURSIVE Ancestor(_, _, _)
Ancestor(t, id, n) ==
    IF n = 0 \/ id = Null THEN id ELSE Ancestor(t, ParentIn(t, id), n - 1)

OnCycle(t, id) == \E n \in 1..Len(t) : Ancestor(t, id, n) = id

\* The cycles of the parent relation, each as the set of its nodes
ParentCycles(t) ==
    {{Ancestor(t, id, n) : n \in 0..Len(t)} : id \in {k \in KeySet(t) : OnCycle(t, k)}}

\* C4: validateHierarchy returns one entry for each cycle of the parent
\* relation and no other: the entry lists the nodes of the cycle along the
\* parent relation, from one of them back to itself.  A run that validated
\* and ended has written the tree.
C4_EachCycleReportedOnce ==
    "validate" \in finished =>
        /\ Len(validation.circular) = Cardinality(ParentCycles(tree))
        /\ {Range(validation.circular[i]) : i \in DOMAIN validation.circular}
              = ParentCycles(tree)
        /\ \A i \in DOMAIN validation.circular :
              LET c == validation.circular[i]
              IN /\ c[1] = c[Len(c)]
                 /\ Len(c) = Cardinality(Range(c)) + 1
                 /\ \A j \in 1..(Len(c) - 1) : ParentIn(tree, c[j]) = c[j + 1]
        /\ pc = "done" => TreeWritten /\ treeFile = BuildTreeWithChildren(tree)

\* a and util-a are each other's parent and b leads into them: one entry,
\* and the run has ended with the tree written
C4_TwoCycleWithTailWritten ==
    /\ pc = "done" /\ TreeWritten
    /\ ParentIn(treeFile, IdA) = IdUtilA
    /\ ParentIn(treeFile, IdUtilA) = IdA
    /\ ParentIn(treeFile, IdB) = IdA
    /\ Len(validation.circular) = 1
    /\ Range(validation.circular[1]) = {IdA, IdUtilA}

\* The nodes whose parent is not null and not a key of the tree
Orphans(t) ==
    {i \in DOMAIN t : t[i].val.parent # Null /\ ~HasKey(t, t[i].val.parent)}

\* C5 as stated: the id of every node whose parent is non-null and is not
\* a key of the tree occurs exactly once in the orphaned list of
\* validateHierarchy.
C5_OrphanListedOnce ==
    "validate" \in finished =>
        \A i \in Orphans(tree) : Occurrences(validation.orphaned, tree[i].val.id) = 1

\* C6: in the written tree, c is in the children of p exactly when c is a
\* key and the parent of its node is the id of p; no child is listed twice.
C6_ChildrenInvertParent ==
    /\ TreeWritten =>
          \A i \in DOMAIN treeFile :
              LET p == treeFile[i].val
              IN /\ \A c \in KeySet(treeFile) \cup Range(p.children) :
                        Contains(p.children, c)
                            <=> HasKey(treeFile, c) /\ Get(treeFile, c).parent = p.id
                 /\ \A j, k \in DOMAIN p.children :
                        p.children[j] = p.children[k] => j = k
    /\ writes > 0 /\ mdFiles = <<>> => treeFile = <<>>

\* root with parent null and billing with parent root: two nodes,
\* root.children = [billing], billing.children = []
C6_RootAndBillingWritten ==
    /\ TreeWritten
    /\ Keys(treeFile) = <<RootId, IdBilling>>
    /\ Get(treeFile, RootId).parent = Null
    /\ Get(treeFile, RootId).children = <<IdBilling>>
    /\ Get(treeFile, IdBilling).children = <<>>

\* Step 5 applies suggestions: the analysis ran and suggest-only is off
SuggestionsApplied ==
    options.analyzeCode /\ ~fs.analysisFails /\ ~options.suggestOnly

\* The parents inferred for id: those of the source files whose suggested
\* module id is id and whose path contains the path of no node
InferredParents(id) ==
    {SourceFileInfo(f).suggestedParentId :
        f \in {g \in Range(fs.sourceFiles) :
                  /\ SourceFileInfo(g).suggestedModuleId = id
                  /\ \A i \in DOMAIN treeFile : ~PathMatches(treeFile[i].val, g)}}

\* The parent of the written node id whose own parent is `own`
ParentAfterInference(id, own, parent) ==
    IF own \in {RootId, Null} /\ SuggestionsApplied /\ InferredParents(id) # {}
    THEN parent \in InferredParents(id)
    ELSE parent = own

\* The nodes of the written tree made from a document that declares an id
ExplicitNodes == {i \in DOMAIN treeFile : treeFile[i].val.path \in LastDeclarers}

\* The nodes of the written tree made for a document without an id
HeaderlessNodes ==
    {i \in DOMAIN treeFile :
        /\ CanRead(treeFile[i].val.path)
        /\ DeclaredId(treeFile[i].val.path) = Null}

C9_NoWriteWithoutDocsDir ==
    fs.docsDir # "readable" => writes = 0 /\ treeFile = PreviousTree

\* The stages that precede the write of step 9
StagesBeforeWrite == {"parse", "merge", "link", "apply", "update", "validate", "children"}

C12_FallbackKeepsWholeText ==
    Parsed =>
        \A p \in Range(mdFiles) :
            LET content == FileAt(p).content
                closing == IndexOfClosing(content)
            IN \/ ~StartsWithDelimiter(content)
               \/ closing = 0
               \/ yamlLoad(SubSeq(content, 3, closing - 1)).outcome # "mapping"
               => /\ parse(content).meta = EmptyMeta
                  /\ parse(content).body = content


\* C13: the validation step leaves the tree as it is, and the written tree
\* has the keys and the parents the tree had when it was validated: a node
\* reported as orphaned is written with its missing parent, the nodes of a
\* reported cycle are written with their parents along the cycle.
C13_ValidationOnlyReports ==
    /\ [][pc = "validate" => tree' = tree]_vars
    /\ [](TreeWritten =>
            /\ Keys(treeFile) = Keys(tree)
            /\ \A i \in DOMAIN tree : treeFile[i].val.parent = tree[i].val.parent
            /\ \A i \in DOMAIN validation.orphaned :
                  LET id == validation.orphaned[i]
                  IN HasKey(tree, id) =>
                        /\ ParentIn(treeFile, id) # Null
                        /\ ~HasKey(treeFile, ParentIn(treeFile, id))
            /\ \A i \in DOMAIN validation.circular :
                  LET c == validation.circular[i]
                  IN \A j \in 1..(Len(c) - 1) : ParentIn(treeFile, c[j]) = c[j + 1])

\* Written: b under the missing root, reported as orphaned, and a and
\* util-a under each other, reported as a cycle
C13_OrphanAndCycleKeptInFile ==
    /\ TreeWritten
    /\ Contains(validation.orphaned, IdB)
    /\ ParentIn(treeFile, IdB) = RootId
    /\ validation.circular # <<>>
    /\ ParentIn(treeFile, IdA) = IdUtilA
    /\ ParentIn(treeFile, IdUtilA) = IdA


\* C14: with suggestOnly set, the steps of the analysis stage keep the key,
\* the parent and the suggestedParent of every node the tree already has,
\* and in the written tree every explicit node has the parent its document
\* declares, every headerless node has parent null, and neither has a
\* suggestedParent.
C14_SuggestOnlyAppliesNothing ==
    /\ [][options.suggestOnly /\ pc \in {"analyze", "link", "apply"} =>
            /\ Len(tree') >= Len(tree)
            /\ \A i \in DOMAIN tree :
                  /\ tree'[i].key = tree[i].key
                  /\ tree'[i].val.parent = tree[i].val.parent
                  /\ tree'[i].val.suggestedParent = tree[i].val.suggestedParent]_vars
    /\ [](options.suggestOnly /\ TreeWritten =>
            /\ \A i \in ExplicitNodes :
                  /\ treeFile[i].val.parent = DeclaredParent(treeFile[i].val.path)
                  /\ treeFile[i].val.suggestedParent = Null
            /\ \A i \in HeaderlessNodes :
                  /\ treeFile[i].val.parent = Null
                  /\ treeFile[i].val.suggestedParent = Null)

\* Written with suggestOnly set: a document node at top level for which a
\* high-confidence suggestion was made
C14_HighSuggestionOnlyReported ==
    /\ options.suggestOnly
    /\ TreeWritten
    /\ \E i \in DOMAIN suggestions :
           /\ suggestions[i].confidence = "high"
           /\ \E j \in ExplicitNodes \cup HeaderlessNodes :
                  /\ treeFile[j].key = suggestions[i].moduleId
                  /\ treeFile[j].val.parent \in {Null, RootId}
                  /\ treeFile[j].val.parent # suggestions[i].suggestedParent


C16_EachDocumentReadOnce ==
    pc = "addReferenced" =>
        LET reads == TraverseFrom(Keys(filePathToId)).reads
        IN /\ \A i, j \in DOMAIN reads : reads[i] = reads[j] => i = j
           /\ Len(reads) <= Cardinality(DocPaths)
           /\ Range(reads) \subseteq KeySet(filePathToId) \cup Range(allReferencedPaths)

\* The traversal has ended on two documents that link to each other, or
\* on one that links to itself
C16_LinkCycleTraversed ==
    /\ pc = "addReferenced"
    /\ \E a, b \in Range(TraverseFrom(Keys(filePathToId)).reads) :
           a \in LinksOf(b) /\ b \in LinksOf(a)


\* C17 as stated: the orphaned list of validateHierarchy holds the ids of
\* the nodes whose parent is non-null and not a key of the tree, and
\* nothing else.
C17_OrphanedListHoldsOrphansOnly ==
    "validate" \in finished =>
        Range(validation.orphaned) = {tree[i].key : i \in Orphans(tree)}


\* C18: when suggestions are applied, each suggestion in turn changes at
\* most the node it names, and only if its confidence is 'high' and the
\* parent the node has at that moment is 'root' or null; the whole step
\* keeps the keys and changes no node but in its parent and
\* suggestedParent, both set to the parent of a high-confidence suggestion.
C18_OnlyHighAtTopLevel ==
    /\ [](pc = "apply" =>
            \A k \in DOMAIN suggestions :
                LET t == ApplySuggestions(tree, SubSeq(suggestions, 1, k - 1))
                    after == ApplySuggestion(t, suggestions[k])
                IN /\ Keys(after) = Keys(t)
                   /\ \A i \in DOMAIN t :
                         after[i].val # t[i].val =>
                            /\ suggestions[k].confidence = "high"
                            /\ t[i].key = suggestions[k].moduleId
                            /\ t[i].val.parent \in {RootId, Null})
    /\ [][pc = "apply" /\ ~options.suggestOnly =>
            /\ Keys(tree') = Keys(tree)
            /\ \A i \in DOMAIN tree :
                  tree'[i].val # tree[i].val =>
                     /\ tree[i].val.parent \in {RootId, Null}
                     /\ tree'[i].val =
                           [tree[i].val EXCEPT
                               !.parent = tree'[i].val.parent,
                               !.suggestedParent = tree'[i].val.parent]
                     /\ \E k \in DOMAIN suggestions :
                           /\ suggestions[k].confidence = "high"
                           /\ suggestions[k].moduleId = tree[i].key
                           /\ suggestions[k].suggestedParent = tree'[i].val.parent]_vars

\* Suggestions were applied: a medium one left a top-level document node
\* where it was, a high one moved another
C18_MediumLeftHighApplied ==
    /\ pc = "update"
    /\ ~options.suggestOnly
    /\ \E k \in DOMAIN suggestions :
           /\ suggestions[k].confidence = "medium"
           /\ HasKey(tree, suggestions[k].moduleId)
           /\ Get(tree, suggestions[k].moduleId).parent \in {RootId, Null}
           /\ Get(tree, suggestions[k].moduleId).suggestedParent = Null
    /\ \E k \in DOMAIN suggestions :
           /\ suggestions[k].confidence = "high"
           /\ HasKey(tree, suggestions[k].moduleId)
           /\ Get(tree, suggestions[k].moduleId).path # <<>>
           /\ Get(tree, suggestions[k].moduleId).parent = suggestions[k].suggestedParent
           /\ suggestions[k].suggestedParent # RootId


\* The source files whose suggested parent is the module id
FilesUnder(id) ==
    {f \in Range(fs.sourceFiles) : SourceFileInfo(f).suggestedParentId = id}

\* C19 as stated: after the linking loop, a synthesized parent module has
\* at least two source files that map to it, and a virtual node whose file
\* is the only one mapping to a parent that no document node provides has
\* parent null, with no module node for that parent.
C19_ParentModuleNeedsAnotherFile ==
    pc = "apply" =>
        /\ \A i \in DOMAIN tree :
              tree[i].val.isSourceFile = "false" =>
                  Cardinality(FilesUnder(tree[i].key)) >= 2
        /\ \A i \in DOMAIN tree :
              tree[i].val.isSourceFile = "true" =>
                  LET parentId == SourceFileInfo(tree[i].val.sourceFile).suggestedParentId
                  IN /\ Cardinality(FilesUnder(parentId)) = 1
                     /\ \A j \in DOMAIN tree :
                            tree[j].key = parentId => tree[j].val.isSourceFile = "false"
                     => /\ ~HasKey(tree, parentId)
                        /\ tree[i].val.parent = Null


\* C20: in step 4, when the id d derived for a headerless referenced
\* document is a key of the tree, the document is inserted as a new last
\* node under d-k, k the least number from 1 for which d-k is no key; the
\* nodes the tree had stay as they were, the new node's id is d-k, and
\* filePathToId maps the document to d-k.
C20_LeastFreeSuffix ==
    pc = "addReferenced" =>
        \A n \in DOMAIN allReferencedPaths :
            LET refPath == allReferencedPaths[n]
                st == AddReferencedFiles(SubSeq(allReferencedPaths, 1, n - 1),
                          [tree |-> tree, warnings |-> warnings,
                           filePathToId |-> filePathToId])
                after == AddReferencedFile(refPath, st)
                d == generateEntryForReferencedFile(refPath).id
            IN after.tree # st.tree /\ HasKey(st.tree, d) =>
                  \E k \in 1..(Len(st.tree) + 1) :
                      /\ \A m \in 1..(k - 1) : HasKey(st.tree, Append(d, ToString(m)))
                      /\ ~HasKey(st.tree, Append(d, ToString(k)))
                      /\ after.tree =
                            Append(st.tree,
                                   [key |-> Append(d, ToString(k)),
                                    val |-> [generateEntryForReferencedFile(refPath)
                                                EXCEPT !.id = Append(d, ToString(k))]])
                      /\ Get(after.filePathToId, refPath) = Append(d, ToString(k))

\* Written: util-a from a document that declares it, util-a-1 and util-a-2
\* for the headerless util/a.md and util-a.md
C20_SecondSuffixWritten ==
    /\ TreeWritten
    /\ HasKey(treeFile, IdUtilA)
    /\ Get(treeFile, IdUtilA).isReferenced = FALSE
    /\ HasKey(treeFile, Append(IdUtilA, "1"))
    /\ HasKey(treeFile, Append(IdUtilA, "2"))
    /\ Get(treeFile, Append(IdUtilA, "2")).id = Append(IdUtilA, "2")
    /\ Get(treeFile, Append(IdUtilA, "2")).isReferenced
    /\ Get(filePathToId, Get(treeFile, Append(IdUtilA, "2")).path) = Append(IdUtilA, "2")


\* C21 as stated: a suggestion of suggestModuleHierarchy has confidence
\* 'high' only when two or more source files are grouped under an inferred
\* module that is not yet a node, and has confidence 'medium' exactly when
\* the node it names exists with parent 'root' or null.
C21_HighNeedsTwoFiles ==
    pc = "link" =>
        \A k \in DOMAIN suggestions :
            LET s == suggestions[k]
            IN /\ s.confidence = "high" =>
                     \E module \in {s.moduleId, s.suggestedParent} :
                         /\ Cardinality(FilesUnder(module)) >= 2
                         /\ ~HasKey(tree, module)
               /\ s.confidence = "medium" <=>
                     /\ HasKey(tree, s.moduleId)
                     /\ Get(tree, s.moduleId).parent \in {RootId, Null}


\* C22 as stated: for every document whose text starts with a delimiter
\* line and holds a later line that is only the delimiter (directly after
\* the opening line, or as the last line of the text, too), parse ends the
\* block at the first such line: when the lines between load as a mapping,
\* the metadata are that mapping and the body is the text after the line.
C22_BlockEndsAtFirstDelimiterLine ==
    Parsed =>
        \A p \in Range(mdFiles) :
            LET content == FileAt(p).content
                later == {j \in 3..Len(content) :
                             content[j] = Delimiter /\ content[j - 1] = Newline}
            IN StartsWithDelimiter(content) /\ later # {} =>
                   LET closing == CHOOSE j \in later : \A k \in later : j <= k
                       block == SubSeq(content, 3, closing - 2)
                       after == SubSeq(content, closing + 2, Len(content))
                   IN yamlLoad(block).outcome = "mapping" =>
                          /\ parse(content).meta = yamlLoad(block).value
                          /\ parse(content).body = trimStart(after)


\* C23 as stated: every path extractMarkdownReferences returns for a
\* document is an existing .md file in .ai-docs/docs or .ai-docs/files (the
\* directory or a descendant of it), a link to an http or https address
\* gives no entry, and no path is returned twice.
C23_ReferencesInManagedRoots ==
    Parsed =>
        \A p \in DocPaths :
            LET refs == ReferencesOf(p)
                body == parse(FileAt(p).content).body
            IN /\ \A i \in DOMAIN refs :
                      /\ existsSync(refs[i])
                      /\ EndsWithMd(basename(refs[i]))
                      /\ IsPrefix(docsDir, refs[i]) \/ IsPrefix(filesDir, refs[i])
                      /\ \A j \in DOMAIN refs : refs[j] = refs[i] => j = i
               /\ CanRead(p) =>
                      \A k \in DOMAIN body :
                          body[k].form = "ext" =>
                              ExtractLink(body[k], dirname(p), <<>>) = <<>>


\* C24 as stated: in the written tree, every element of a node's
\* references is the id of a node of the tree.
C24_ReferencesAreNodeIds ==
    TreeWritten =>
        \A i \in DOMAIN treeFile :
            \A r \in Range(treeFile[i].val.references) : HasKey(treeFile, r)


\* The files of the project that can be reached: neither the file nor a
\* directory above it is in fs.noAccess
Accessible(paths) ==
    {p \in Range(paths) : \A n \in 1..Len(p) : SubSeq(p, 1, n) \notin fs.noAccess}

\* C25 as stated: scanProject returns, each once, exactly the accessible
\* files of which no path segment equals an entry of the exclusion list
\* and, with an include list, of which the path holds an include keyword.
C25_ScanReturnsAllButExcluded ==
    codeStructure.present =>
        LET excluded == DEFAULT_EXCLUDE \cup BUILD_PATTERNS
            expected == {p \in Accessible(fs.sourceFiles) :
                            /\ \A i \in DOMAIN p : p[i] \notin excluded
                            /\ \E keyword \in ExtensionKeywords :
                                   RelPathIncludes(p, keyword)}
        IN /\ Range(allFiles) = expected
           /\ \A i, j \in DOMAIN allFiles : allFiles[i] = allFiles[j] => i = j


\* scanProject lets the file through when it meets it: no dot entry of the
\* root, no excluded directory or name, an include keyword in its path
PassesScan(p) ==
    /\ ~StartsWithDot(p[1])
    /\ \A n \in 1..Len(p) :
           ~shouldExclude(SubSeq(p, 1, n), p[n], DEFAULT_EXCLUDE \cup BUILD_PATTERNS)
    /\ matchesInclude(p, Last(p), ExtensionKeywords)

\* C26 as stated: in findMarkdownFiles and in scanProject a file or
\* directory that cannot be accessed is skipped and nothing else is: every
\* accessible markdown file of the documentation roots is among the files
\* found, and every accessible file that the scan lets through is returned.
C26_OnlyInaccessibleSkipped ==
    /\ pc \notin {"start", "find"} /\ fs.docsDir = "readable" =>
           \A p \in Accessible([i \in DOMAIN fs.docs |-> fs.docs[i].path]) :
               EndsWithMd(basename(p)) /\ (IsPrefix(docsDir, p) \/ IsPrefix(filesDir, p))
                   => p \in Range(mdFiles)
    /\ codeStructure.present =>
           \A p \in Accessible(fs.sourceFiles) :
               PassesScan(p) => p \in Range(allFiles)


\* The source file is the sourceFile of a virtual node of the written tree
\* or an element of the sourceFiles of one of its nodes
Associated(f) ==
    \E i \in DOMAIN treeFile :
        \/ treeFile[i].val.isSourceFile = "true" /\ treeFile[i].val.sourceFile = f
        \/ Contains(treeFile[i].val.sourceFiles, f)

\* C27: when the analysis ran without throwing and autoLink is on, every
\* source file analyzeCodeStructure returned is the sourceFile of a virtual
\* node of the written tree or an element of some node's sourceFiles.
C27_EverySourceFileAssociated ==
    TreeWritten /\ codeStructure.present /\ options.autoLink =>
        \A k \in DOMAIN codeStructure.sourceFiles :
            Associated(codeStructure.sourceFiles[k].relativePath)

\* Two source files are written, one as a virtual node and one in the
\* sourceFiles of a node that is not its own
C27_VirtualAndListedWritten ==
    /\ TreeWritten /\ codeStructure.present /\ options.autoLink
    /\ \E k, l \in DOMAIN codeStructure.sourceFiles :
           LET f == codeStructure.sourceFiles[k].relativePath
               g == codeStructure.sourceFiles[l].relativePath
           IN /\ f # g
              /\ \E i \in DOMAIN treeFile :
                     treeFile[i].val.isSourceFile = "true" /\ treeFile[i].val.sourceFile = f
              /\ \A i \in DOMAIN treeFile : treeFile[i].val.sourceFile # g
              /\ \E i \in DOMAIN treeFile : Contains(treeFile[i].val.sourceFiles, g)


\* C28 as stated: in the written tree, the sourceFiles of a module node
\* that handleScan synthesized (empty path, isSourceFile false) are the
\* discovered source files whose inferred parent is that module.
C28_ModuleListsAllItsFiles ==
    TreeWritten =>
        \A i \in DOMAIN treeFile :
            treeFile[i].val.path = <<>> /\ treeFile[i].val.isSourceFile = "false" =>
                Range(treeFile[i].val.sourceFiles) =
                    {sf.relativePath :
                        sf \in {g \in Range(codeStructure.sourceFiles) :
                                   g.suggestedParentId = treeFile[i].key}}


\* The nodes of the written tree that come from documents: the code
\* stages set isSourceFile on every node they create
DocumentNodes == {i \in DOMAIN treeFile : treeFile[i].val.isSourceFile = "undefined"}

\* The parent a document node had before step 5: that of its metadata
\* block, null for a node generated for a referenced document
ParentBeforeAnalysis(i) ==
    IF treeFile[i].val.isReferenced THEN Null
    ELSE DeclaredParent(treeFile[i].val.path)

\* C29 as stated: when every non-null parent of a document node was a key
\* of the tree before the code analysis, every non-null parent of every
\* node of the written tree is a key of the written tree.
C29_CodeStagesCreateNoOrphan ==
    /\ TreeWritten
    /\ \A i \in DocumentNodes :
           ParentBeforeAnalysis(i) # Null =>
               \E j \in DocumentNodes : treeFile[j].key = ParentBeforeAnalysis(i)
    => \A i \in DOMAIN treeFile :
           treeFile[i].val.parent # Null => HasKey(treeFile, treeFile[i].val.parent)


\* The written tree with the parents the nodes had before step 5: a node
\* the code stages created has none
TreeBeforeAnalysis ==
    [i \in DOMAIN treeFile |->
        [treeFile[i] EXCEPT !.val.parent =
            IF i \in DocumentNodes THEN ParentBeforeAnalysis(i) ELSE Null]]

\* C30 as stated: when the parents of the document nodes form no cycle
\* before the code analysis, the parents of the written tree form none.
C30_CodeStagesCreateNoCycle ==
    TreeWritten /\ ParentCycles(TreeBeforeAnalysis) = {} =>
        ParentCycles(treeFile) = {}

====
